---------------------------- MODULE Spec2Model ----------------------------
(***************************************************************************)
(* A model of the Autogen Obsidian plugin (src/main.ts, src/utils/openai.ts). *)
(*                                                                         *)
(* Texts (documents, matches, replacements, context windows) are sequences *)
(* of one-character strings, indexed from 0 as in JavaScript through the   *)
(* helpers below.  A JavaScript number that may be fractional (an offset   *)
(* computed with windowSize / 2) is kept in HALVES: the integer h stands   *)
(* for the number h / 2.  NaN is the value NaN below.                      *)
(***************************************************************************)
EXTENDS Integers, Sequences, FiniteSets, TLC

VARIABLES
    content,        \* editor.getValue(): the document text
    settings,       \* Autogen.settings
    typingDelay,    \* Autogen.typingDelay
    typingTimeout,  \* Autogen.typingTimeout: a timer handle, or Null
    openaiClient,   \* Autogen.openaiClient: Null, or the API key it was built with
    timers,         \* the host's pending setTimeout timers: [id, remaining ms]
    modals,         \* the open dialogs, in the order they were opened
    sinceChange,    \* history: ms since the last editor-change event (capped)
    passes,         \* history: detection passes since the last editor-change event
    burst,          \* history: editor-change events of the current burst (capped)
    lastOp,         \* history: the handler that ran last
    threw,          \* history: that handler ended in an exception nothing caught
    fnArgs,         \* one call of a pure function: its arguments
    fnRet           \* one call of a pure function: its result, or Null

vars == <<content, settings, typingDelay, typingTimeout, openaiClient, timers,
          modals, sinceChange, passes, burst, lastOp, threw, fnArgs, fnRet>>

(***************************************************************************)
(* Bounds of the model.                                                    *)
(***************************************************************************)
MaxDocLen == 4      \* longest exhaustively enumerated document
MaxReplLen == 2     \* longest exhaustively enumerated replacement text
MaxWindow == 5      \* largest exhaustively enumerated window size
MaxModals == 2      \* dialogs open at once
MaxTimers == 2      \* pending timers at once
TickMs == 1000      \* granularity with which time advances

(***************************************************************************)
(* JavaScript numbers.  [nan, h]: NaN, or the number h / 2.                *)
(***************************************************************************)
NaN == [nan |-> TRUE, h |-> 0]
Num(n) == [nan |-> FALSE, h |-> 2 * n]

Min(a, b) == IF a <= b THEN a ELSE b
Max(a, b) == IF a >= b THEN a ELSE b

\* x / 2 for an integer x (parseInt gives an integer or NaN)
Div2(x) == IF x.nan THEN NaN ELSE [nan |-> FALSE, h |-> x.h \div 2]
Add(x, y) == IF x.nan \/ y.nan THEN NaN ELSE [nan |-> FALSE, h |-> x.h + y.h]
Sub(x, y) == IF x.nan \/ y.nan THEN NaN ELSE [nan |-> FALSE, h |-> x.h - y.h]

\* Math.max / Math.min: NaN if an argument is NaN.
MathMax(x, y) == IF x.nan \/ y.nan THEN NaN ELSE [nan |-> FALSE, h |-> Max(x.h, y.h)]
MathMin(x, y) == IF x.nan \/ y.nan THEN NaN ELSE [nan |-> FALSE, h |-> Min(x.h, y.h)]

\* x <= y as JavaScript compares: false if an argument is NaN.
Leq(x, y) == ~x.nan /\ ~y.nan /\ x.h <= y.h

\* ToIntegerOrInfinity: NaN is 0, a fraction is truncated towards zero.
ToInteger(x) ==
    IF x.nan THEN 0
    ELSE IF x.h >= 0 THEN x.h \div 2 ELSE -((-x.h) \div 2)

(***************************************************************************)
(* JavaScript strings.                                                     *)
(***************************************************************************)
\* s.slice(a, b) for 0 <= a <= b <= s.length
Slice(s, a, b) == SubSeq(s, a + 1, b)

\* s.indexOf(t): the first index at which t occurs in s, or -1
IndexOf(s, t) ==
    LET hits == {i \in 0..(Len(s) - Len(t)) : Slice(s, i, i + Len(t)) = t}
    IN  IF hits = {} THEN -1 ELSE CHOOSE i \in hits : \A j \in hits : i <= j

\* s.substring(start, end): each bound is made an integer and clamped to
\* [0, s.length], and the two are swapped if start > end.
Substring(s, start, end) ==
    LET a == Min(Max(ToInteger(start), 0), Len(s))
        b == Min(Max(ToInteger(end), 0), Len(s))
    IN  Slice(s, Min(a, b), Max(a, b))

\* s.substr(0, n): a negative length gives the empty string
Substr0(s, n) == Slice(s, 0, Min(Max(n, 0), Len(s)))

\* s.split("\n").length
SplitLength(s) == Cardinality({i \in 1..Len(s) : s[i] = "\n"}) + 1

\* The lines of a document, as the editor numbers them from 0.
LineStart(s, n) ==
    IF n = 0 THEN 0
    ELSE LET nl == {i \in 1..Len(s) : s[i] = "\n"
                                     /\ Cardinality({j \in 1..i : s[j] = "\n"}) = n}
         IN  CHOOSE i \in nl : TRUE
LineEnd(s, n) ==
    LET later == {i \in (LineStart(s, n) + 1)..Len(s) : s[i] = "\n"}
    IN  IF later = {} THEN Len(s) ELSE (CHOOSE i \in later : \A j \in later : i <= j) - 1
LineCount(s) == SplitLength(s)
LineText(s, n) == Slice(s, LineStart(s, n), LineEnd(s, n))

(***************************************************************************)
(* The trigger pattern.  Two values of the triggerRegex setting are        *)
(* modelled: the default, and a text that is no regular expression.        *)
(***************************************************************************)
DEFAULT_triggerRegex == "@\\[(.*?)\\]"
MalformedRegex == "@\\[("

NoMatch == [found |-> FALSE, index |-> 0, text |-> <<>>]

\* new RegExp(pattern, "g") throws a SyntaxError
RegExpThrows(pattern) == pattern # DEFAULT_triggerRegex

\* exec with the match's offset taken from pattern.lastIndex, the end of the
\* match, instead of match.index.
ExecLastIndex(s) ==
    LET closes(i) == {j \in (i + 2)..(Len(s) - 1) :
                        /\ s[j + 1] = "]"
                        /\ \A k \in (i + 2)..(j - 1) : s[k + 1] # "\n"}
        opens == {i \in 0..(Len(s) - 3) :
                        s[i + 1] = "@" /\ s[i + 2] = "[" /\ closes(i) # {}}
    IN  IF opens = {} THEN NoMatch
        ELSE LET i == CHOOSE a \in opens : \A b \in opens : a <= b
                 j == CHOOSE a \in closes(i) : \A b \in closes(i) : a <= b
             IN  [found |-> TRUE, index |-> j + 1, text |-> Slice(s, i, j + 1)]

\* /@\[(.*?)\]/g.exec(s) from lastIndex 0: the leftmost "@[", followed by
\* the nearest "]" with no line break in between.
Exec(s) ==
    LET closes(i) == {j \in (i + 2)..(Len(s) - 1) :
                        /\ s[j + 1] = "]"
                        /\ \A k \in (i + 2)..(j - 1) : s[k + 1] # "\n"}
        opens == {i \in 0..(Len(s) - 3) :
                        s[i + 1] = "@" /\ s[i + 2] = "[" /\ closes(i) # {}}
    IN  IF opens = {} THEN NoMatch
        ELSE LET i == CHOOSE a \in opens : \A b \in opens : a <= b
                 j == CHOOSE a \in closes(i) : \A b \in closes(i) : a <= b
             IN  [found |-> TRUE, index |-> i, text |-> Slice(s, i, j + 1)]

(***************************************************************************)
(* The context window (showConfirmationModal, triggerGeneration).          *)
(***************************************************************************)
WindowStart(match, windowSize) ==
    MathMax(Sub(Num(match.index), Div2(windowSize)), Num(0))

\* The end of a window measured from the start of the match, the length of
\* the match left out.
WindowEndFromIndex(s, match, windowSize) ==
    MathMin(Add(Num(match.index), Div2(windowSize)), Num(Len(s)))

WindowEnd(s, match, windowSize) ==
    MathMin(Add(Num(match.index + Len(match.text)), Div2(windowSize)), Num(Len(s)))

\* The window cut with substr(start, length) in place of substring(start, end).
TextWindowSubstr(s, match, windowSize) ==
    LET a == Min(Max(ToInteger(WindowStart(match, windowSize)), 0), Len(s))
        n == Max(ToInteger(WindowEnd(s, match, windowSize)), 0)
    IN  Slice(s, a, Min(a + n, Len(s)))

TextWindow(s, match, windowSize) ==
    Substring(s, WindowStart(match, windowSize), WindowEnd(s, match, windowSize))

(***************************************************************************)
(* content.replace(match, replacement) with a string pattern.              *)
(***************************************************************************)
\* GetSubstitution for a string pattern (no captures): in the replacement,
\* "$$" is "$", "$&" is the matched text, "$`" is the text before the match
\* and "$'" the text after it; any other "$" stands for itself.
RECURSIVE GetSubstitution(_, _, _, _)
GetSubstitution(matched, str, position, replacement) ==
    IF replacement = <<>> THEN <<>>
    ELSE IF Head(replacement) = "$" /\ Len(replacement) >= 2
         THEN LET c == replacement[2]
                  rest == GetSubstitution(matched, str, position,
                                          Slice(replacement, 2, Len(replacement)))
              IN  CASE c = "$" -> <<"$">> \o rest
                    [] c = "&" -> matched \o rest
                    [] c = "`" -> Slice(str, 0, position) \o rest
                    [] c = "'" -> Slice(str, position + Len(matched), Len(str)) \o rest
                    [] OTHER -> <<"$">> \o GetSubstitution(matched, str, position,
                                                           Tail(replacement))
         ELSE <<Head(replacement)>> \o GetSubstitution(matched, str, position,
                                                       Tail(replacement))

\* s.replace(match, replacement): the first occurrence of match is replaced
\* by the substitution; s is returned as it is when match does not occur.
StringReplace(s, match, replacement) ==
    LET pos == IndexOf(s, match)
    IN  IF pos = -1 THEN s
        ELSE Slice(s, 0, pos)
               \o GetSubstitution(match, s, pos, replacement)
               \o Slice(s, pos + Len(match), Len(s))

\* replaceText that puts the replacement at the end of a document in which
\* the match text does not occur.
replaceTextAppends(doc, match, replacement) ==
    IF IndexOf(doc, match) = -1 THEN doc \o replacement
    ELSE StringReplace(doc, match, replacement)

\* Autogen.replaceText of the debounce variant: the new document.
replaceText(doc, match, replacement) == StringReplace(doc, match, replacement)

\* Autogen.replaceText of the suggester variant: the new document and the
\* cursor it asks for.  editor.getLine of a line the document does not have
\* is the host's to answer: it throws (lineThrows, setCursor is not reached)
\* or gives the empty string.
NoCursor == [set |-> FALSE, line |-> 0, ch |-> 0]

replaceTextSuggester(doc, match, replacement, lineThrows) ==
    LET newContent == StringReplace(doc, match, replacement)
        matchIndex == IndexOf(newContent, replacement)
        lineNumber == SplitLength(Substr0(newContent, matchIndex))
        inRange == lineNumber < LineCount(newContent)
        line == IF inRange THEN LineText(newContent, lineNumber) ELSE <<>>
        charPosition == IndexOf(line, replacement)
    IN  [content |-> newContent,
         cursor |-> IF ~inRange /\ lineThrows THEN NoCursor
                    ELSE [set |-> TRUE, line |-> lineNumber, ch |-> charPosition]]

(***************************************************************************)
(* The generation client (src/utils/openai.ts) and generateReplacementText. *)
(* A failure message is one indivisible piece of text: none of them holds  *)
(* a character the pattern or the substitution treats specially.           *)
(***************************************************************************)
MsgNoResponse == <<"Error: No response from OpenAI">>
MsgInvalidResponse == <<"Error: Invalid response from OpenAI">>
MsgErrorGenerating == <<"Error: Error generating replacement text">>
MsgNotInitialized ==
    <<"Error: OpenAI client not initialized. Please make sure there is an API key set in the settings.">>

\* The texts the generation hands back in place of a replacement.
FailureMessages ==
    {MsgNoResponse, MsgInvalidResponse, MsgErrorGenerating, MsgNotInitialized}

\* What the backend may answer to client.chat.completions.create.
Replies == {<<"X">>, <<>>, <<"$", "&">>}
ResponseKinds ==
    {"reject", "zeroChoices", "noToolCalls", "emptyToolCalls", "badJson", "noField"}
Responses ==
    {[kind |-> k, text |-> <<>>] : k \in ResponseKinds}
        \cup {[kind |-> "ok", text |-> r] : r \in Replies}
NoResponse == [kind |-> "none", text |-> <<>>]

\* What a call hands back: a string, undefined, or an exception it lets out.
Undefined == [undef |-> TRUE, threw |-> FALSE, text |-> <<>>]
Str(t) == [undef |-> FALSE, threw |-> FALSE, text |-> t]
Threw == [undef |-> TRUE, threw |-> TRUE, text |-> <<>>]

\* getReplacement with one message for every response it cannot use.
getReplacementOneMessage(response) ==
    CASE response.kind = "reject" -> Undefined
      [] response.kind = "zeroChoices" -> Str(MsgInvalidResponse)
      [] response.kind = "noToolCalls" -> Str(MsgInvalidResponse)
      [] response.kind = "emptyToolCalls" -> Undefined
      [] response.kind = "badJson" -> Undefined
      [] response.kind = "noField" -> Str(MsgInvalidResponse)
      [] response.kind = "ok" -> Str(response.text)

\* getReplacement without its try/catch: what is thrown inside gets out.
getReplacementNoCatch(response) ==
    CASE response.kind = "reject" -> Threw
      [] response.kind = "zeroChoices" -> Str(MsgNoResponse)
      [] response.kind = "noToolCalls" -> Str(MsgInvalidResponse)
      [] response.kind = "emptyToolCalls" -> Threw
      [] response.kind = "badJson" -> Threw
      [] response.kind = "noField" -> Str(MsgInvalidResponse)
      [] response.kind = "ok" -> Str(response.text)

\* getReplacement, from the response on.  A rejected request, a tool_calls
\* list that is empty ([]?.[0].function throws) and arguments that are no
\* JSON (JSON.parse throws) all end in the catch block.
getReplacement(response) ==
    CASE response.kind = "reject" -> Undefined
      [] response.kind = "zeroChoices" -> Str(MsgNoResponse)
      [] response.kind = "noToolCalls" -> Str(MsgInvalidResponse)
      [] response.kind = "emptyToolCalls" -> Undefined
      [] response.kind = "badJson" -> Undefined
      [] response.kind = "noField" -> Str(MsgInvalidResponse)
      [] response.kind = "ok" -> Str(response.text)

\* if (replacement): undefined and the empty string are falsy
Truthy(v) == ~v.undef /\ v.text # <<>>

\* generateReplacementText, from the value getReplacement returned on
generateReplacementText(replacement) ==
    IF Truthy(replacement) THEN replacement.text ELSE MsgErrorGenerating

\* initOpenAIClient: the client after the call
initOpenAIClient(client, apiKey) == IF apiKey # "" THEN apiKey ELSE client

(***************************************************************************)
(* Settings.                                                               *)
(***************************************************************************)
DEFAULT_windowSize == 8000
DEFAULT_typingDelay == 2000

DEFAULT_SETTINGS ==
    [openaiApiKey |-> "",
     triggerRegex |-> DEFAULT_triggerRegex,
     windowSize |-> Num(DEFAULT_windowSize),
     typingDelay |-> Num(DEFAULT_typingDelay)]

\* The values of the API key field: empty, or a key.
ApiKeys == {"", "sk-1"}

\* What loadData() may hold: the settings a user saved earlier.  The typing
\* delay saved is the default; SetTypingDelay is how it comes to differ.
LoadedData ==
    {[DEFAULT_SETTINGS EXCEPT !.openaiApiKey = k, !.typingDelay = Num(d),
                              !.triggerRegex = p]
        : k \in ApiKeys, d \in {DEFAULT_typingDelay},
          p \in {DEFAULT_triggerRegex, MalformedRegex}}

\* setTimeout's delay in ms: NaN and negative delays are 0
TimeoutDelay(x) == IF x.nan \/ x.h < 0 THEN 0 ELSE x.h \div 2

(***************************************************************************)
(* The documents the user moves between in the controller's runs.          *)
(***************************************************************************)
CtlDocs ==
    {<<"x">>,
     <<"x", "@", "[", "x", "]">>}

NoTimer == 0
NullClient == ""

StageAwaitingConfirmation == "AwaitingConfirmation"
StageGenerating == "Generating"
StageAwaitingUserDecision == "AwaitingUserDecision"
\* onConfirm rejected at its await: the dialog keeps its "Loading..." text
StageRaised == "Raised"

NoCall == [op |-> "none"]
NoRet == [op |-> "none"]

(***************************************************************************)
(* The controller of the debounce variant (src/main.ts, lines 30-237).     *)
(***************************************************************************)
MaxElapsed == 3000  \* cap of the history variable sinceChange
MaxBurst == 2       \* cap of the history variable burst

ctlVars == <<content, settings, typingDelay, typingTimeout, openaiClient, timers,
             modals, sinceChange, passes, burst, lastOp, threw>>
harness == <<fnArgs, fnRet>>

\* onload: the settings are the defaults overridden by the loaded data, the
\* typing delay is read from them, the client is created if there is a key.
InitController ==
    /\ content \in CtlDocs
    /\ settings \in LoadedData
    /\ typingDelay = settings.typingDelay
    /\ typingTimeout = NoTimer
    /\ openaiClient = initOpenAIClient(NullClient, settings.openaiApiKey)
    /\ timers = {}
    /\ modals = <<>>
    /\ sinceChange = 0
    /\ passes = 0
    /\ burst = 0
    /\ lastOp = "onload"
    /\ threw = FALSE

\* clearTimeout(this.typingTimeout): the pending timers that are left
ClearTimeout(pending, handle) == {t \in pending : t.id # handle}

\* A handle setTimeout has not handed out among the live ones.
FreshId(pending, handle) ==
    CHOOSE i \in 1..(MaxTimers + 1) :
        /\ i # handle
        /\ \A t \in pending : t.id # i
        /\ \A j \in 1..(i - 1) : j = handle \/ \E t \in pending : t.id = j

\* handleEditorChange, without the cancellation: the earlier timer stays
\* pending.
HandleEditorChangeNoClear ==
    LET id == FreshId(timers, typingTimeout)
    IN  /\ Cardinality(timers) < MaxTimers
        /\ timers' = timers \cup {[id |-> id, remaining |-> TimeoutDelay(typingDelay)]}
        /\ typingTimeout' = id
        /\ sinceChange' = 0
        /\ passes' = 0
        /\ burst' = IF burst > 0 /\ passes = 0 THEN Min(burst + 1, MaxBurst) ELSE 1

\* handleEditorChange as a leading-edge throttle: a change event that finds a
\* timer pending leaves it running instead of restarting it.
HandleEditorChangeKeepFirst ==
    LET pending == \E t \in timers : t.id = typingTimeout
        id == FreshId(timers, typingTimeout)
    IN  /\ timers' = IF pending THEN timers
                      ELSE timers \cup {[id |-> id,
                                         remaining |-> TimeoutDelay(typingDelay)]}
        /\ typingTimeout' = IF pending THEN typingTimeout ELSE id
        /\ sinceChange' = 0
        /\ passes' = 0
        /\ burst' = IF burst > 0 /\ passes = 0 THEN Min(burst + 1, MaxBurst) ELSE 1

\* handleEditorChange: cancel the timer scheduled before, schedule a new one
\* this.typingDelay ms from now.
HandleEditorChange ==
    LET left == IF typingTimeout # NoTimer
                THEN ClearTimeout(timers, typingTimeout) ELSE timers
        id == FreshId(left, typingTimeout)
    IN  /\ Cardinality(left) < MaxTimers
        /\ timers' = left \cup {[id |-> id, remaining |-> TimeoutDelay(typingDelay)]}
        /\ typingTimeout' = id
        /\ sinceChange' = 0
        /\ passes' = 0
        /\ burst' = IF burst > 0 /\ passes = 0 THEN Min(burst + 1, MaxBurst) ELSE 1

\* An edit that also drops the dialogs whose generation is in flight.
UserEditCancels(d) ==
    /\ d # content
    /\ content' = d
    /\ HandleEditorChange
    /\ modals' = SelectSeq(modals, LAMBDA m : m.stage # StageGenerating)
    /\ lastOp' = "UserEdit"
    /\ threw' = FALSE
    /\ UNCHANGED harness
    /\ UNCHANGED <<settings, typingDelay, openaiClient>>

\* The user edits the document; the editor emits editor-change.
UserEdit(d) ==
    /\ d # content
    /\ content' = d
    /\ HandleEditorChange
    /\ lastOp' = "UserEdit"
    /\ threw' = FALSE
    /\ UNCHANGED harness
    /\ UNCHANGED <<settings, typingDelay, openaiClient, modals>>

\* Time passes while a timer is pending, up to the next timer's expiry: a
\* timer that is due fires before time moves on.
Tick ==
    LET d == IF timers = {} THEN TickMs
             ELSE CHOOSE r \in {Min(TickMs, t.remaining) : t \in timers} :
                      \A t \in timers : r <= t.remaining
    IN  /\ timers # {}
        /\ \A t \in timers : t.remaining > 0
        /\ timers' = {[t EXCEPT !.remaining = @ - d] : t \in timers}
        /\ sinceChange' = Min(sinceChange + d, MaxElapsed)
        /\ sinceChange' # sinceChange \/ timers' # timers
        /\ lastOp' = "Tick"
        /\ threw' = FALSE
        /\ UNCHANGED harness
        /\ UNCHANGED <<content, settings, typingDelay, typingTimeout, openaiClient,
                       modals, passes, burst>>

\* showConfirmationModal: the dialogs after a detection pass on the current
\* document.  new RegExp throws on a malformed pattern and the pass ends.
showConfirmationModal ==
    IF RegExpThrows(settings.triggerRegex) THEN modals
    ELSE LET match == Exec(content)
         IN  IF ~match.found THEN modals
             ELSE Append(modals,
                         [stage |-> StageAwaitingConfirmation,
                          match |-> match,
                          input |-> content,
                          textWindow |-> TextWindow(content, match, settings.windowSize),
                          response |-> NoResponse,
                          replacement |-> <<>>])

\* A pending timer expires and runs its callback, showConfirmationModal.
TimerFires(t) ==
    /\ t \in timers
    /\ t.remaining = 0
    /\ timers' = timers \ {t}
    /\ modals' = showConfirmationModal
    /\ Len(modals') <= MaxModals
    /\ passes' = passes + 1
    /\ lastOp' = "TimerFires"
    /\ threw' = RegExpThrows(settings.triggerRegex)
    /\ UNCHANGED harness
    /\ UNCHANGED <<content, settings, typingDelay, typingTimeout, openaiClient,
                   sinceChange, burst>>

RemoveAt(seq, k) == SubSeq(seq, 1, k - 1) \o SubSeq(seq, k + 1, Len(seq))

\* Stage 1, "No", wired to onConfirm as "Yes" is.
ClickNoGenerates(k) ==
    /\ k \in DOMAIN modals
    /\ modals[k].stage = StageAwaitingConfirmation
    /\ modals' = [modals EXCEPT ![k].stage = StageGenerating]
    /\ lastOp' = "ClickNo"
    /\ threw' = FALSE
    /\ UNCHANGED harness
    /\ UNCHANGED <<content, settings, typingDelay, typingTimeout, openaiClient,
                   timers, sinceChange, passes, burst>>

\* Stage 1, "No": the dialog closes.
ClickNo(k) ==
    /\ k \in DOMAIN modals
    /\ modals[k].stage = StageAwaitingConfirmation
    /\ modals' = RemoveAt(modals, k)
    /\ lastOp' = "ClickNo"
    /\ threw' = FALSE
    /\ UNCHANGED harness
    /\ UNCHANGED <<content, settings, typingDelay, typingTimeout, openaiClient,
                   timers, sinceChange, passes, burst>>

\* Stage 1, "Yes": onConfirm runs generateReplacementText up to its await.
\* Without a client (and without a key to create one) no request is sent and
\* the failure message is the candidate at once.
ClickYes(k) ==
    /\ k \in DOMAIN modals
    /\ modals[k].stage = StageAwaitingConfirmation
    /\ openaiClient' = IF openaiClient = NullClient
                       THEN initOpenAIClient(openaiClient, settings.openaiApiKey)
                       ELSE openaiClient
    /\ modals' = IF openaiClient' # NullClient
                 THEN [modals EXCEPT ![k].stage = StageGenerating]
                 ELSE [modals EXCEPT ![k].stage = StageAwaitingUserDecision,
                                     ![k].replacement = MsgNotInitialized]
    /\ lastOp' = "ClickYes"
    /\ threw' = FALSE
    /\ UNCHANGED harness
    /\ UNCHANGED <<content, settings, typingDelay, typingTimeout, timers,
                   sinceChange, passes, burst>>

\* The backend call settles, and a reply that gives no replacement makes
\* the request go out again: the dialog stays Generating.
BackendRespondsRetries(k, response) ==
    /\ k \in DOMAIN modals
    /\ modals[k].stage = StageGenerating
    /\ modals' = IF ~Truthy(getReplacement(response))
                 THEN modals
                 ELSE [modals EXCEPT
                         ![k].stage = StageAwaitingUserDecision,
                         ![k].response = response,
                         ![k].replacement =
                             generateReplacementText(getReplacement(response))]
    /\ lastOp' = "BackendResponds"
    /\ threw' = FALSE
    /\ UNCHANGED harness
    /\ UNCHANGED <<content, settings, typingDelay, typingTimeout, openaiClient,
                   timers, sinceChange, passes, burst>>

\* The backend call settles: getReplacement and generateReplacementText
\* finish and the dialog shows the candidate.
BackendResponds(k, response) ==
    /\ k \in DOMAIN modals
    /\ modals[k].stage = StageGenerating
    /\ modals' = IF getReplacement(response).threw
                 THEN [modals EXCEPT ![k].stage = StageRaised,
                                     ![k].response = response]
                 ELSE [modals EXCEPT
                         ![k].stage = StageAwaitingUserDecision,
                         ![k].response = response,
                         ![k].replacement =
                             generateReplacementText(getReplacement(response))]
    /\ lastOp' = "BackendResponds"
    /\ threw' = getReplacement(response).threw
    /\ UNCHANGED harness
    /\ UNCHANGED <<content, settings, typingDelay, typingTimeout, openaiClient,
                   timers, sinceChange, passes, burst>>

\* Stage 2, "Cancel", calling replaceText as "Confirm" does.
ClickCancelWrites(k) ==
    /\ k \in DOMAIN modals
    /\ modals[k].stage = StageAwaitingUserDecision
    /\ content' = replaceText(content, modals[k].match.text, modals[k].replacement)
    /\ HandleEditorChange
    /\ modals' = RemoveAt(modals, k)
    /\ lastOp' = "ClickCancel"
    /\ threw' = FALSE
    /\ UNCHANGED harness
    /\ UNCHANGED <<settings, typingDelay, openaiClient>>

\* Stage 2, "Cancel": the dialog closes.
ClickCancel(k) ==
    /\ k \in DOMAIN modals
    /\ modals[k].stage = StageAwaitingUserDecision
    /\ modals' = RemoveAt(modals, k)
    /\ lastOp' = "ClickCancel"
    /\ threw' = FALSE
    /\ UNCHANGED harness
    /\ UNCHANGED <<content, settings, typingDelay, typingTimeout, openaiClient,
                   timers, sinceChange, passes, burst>>

\* Stage 2, "Confirm", with a failure message kept out of the document.
ClickConfirmSkipsFailures(k) ==
    /\ k \in DOMAIN modals
    /\ modals[k].stage = StageAwaitingUserDecision
    /\ IF modals[k].replacement \in FailureMessages
       THEN UNCHANGED <<content, timers, typingTimeout, sinceChange, passes, burst>>
       ELSE /\ content' = replaceText(content, modals[k].match.text,
                                      modals[k].replacement)
            /\ HandleEditorChange
    /\ modals' = RemoveAt(modals, k)
    /\ lastOp' = "ClickConfirm"
    /\ threw' = FALSE
    /\ UNCHANGED harness
    /\ UNCHANGED <<settings, typingDelay, openaiClient>>

\* Stage 2, "Confirm": replaceText, then the dialog closes.  editor.setValue
\* makes the editor emit editor-change.
ClickConfirm(k) ==
    /\ k \in DOMAIN modals
    /\ modals[k].stage = StageAwaitingUserDecision
    /\ content' = replaceText(content, modals[k].match.text, modals[k].replacement)
    /\ HandleEditorChange
    /\ modals' = RemoveAt(modals, k)
    /\ lastOp' = "ClickConfirm"
    /\ threw' = FALSE
    /\ UNCHANGED harness
    /\ UNCHANGED <<settings, typingDelay, openaiClient>>

\* The API key field's handler, building the client anew from the value.
SetApiKeyReinit(value) ==
    /\ value # settings.openaiApiKey
    /\ settings' = [settings EXCEPT !.openaiApiKey = value]
    /\ openaiClient' = value
    /\ lastOp' = "SetApiKey"
    /\ threw' = FALSE
    /\ UNCHANGED harness
    /\ UNCHANGED <<content, typingDelay, typingTimeout, timers,
                   modals, sinceChange, passes, burst>>

\* The settings tab, "OpenAI API Key": the new value is stored and saved.
\* The client built from the earlier key stays as it is.
SetApiKey(value) ==
    /\ value # settings.openaiApiKey
    /\ settings' = [settings EXCEPT !.openaiApiKey = value]
    /\ lastOp' = "SetApiKey"
    /\ threw' = FALSE
    /\ UNCHANGED harness
    /\ UNCHANGED <<content, typingDelay, typingTimeout, openaiClient, timers,
                   modals, sinceChange, passes, burst>>

\* The values parseInt stores from the Typing Delay field.
TypingDelays == {Num(DEFAULT_typingDelay), Num(1000)}

\* The settings tab, "Typing Delay": parseInt of the field is stored in the
\* settings and saved.  The field Autogen.typingDelay is left as onload set it.
SetTypingDelay(value) ==
    /\ value # settings.typingDelay
    /\ settings' = [settings EXCEPT !.typingDelay = value]
    /\ lastOp' = "SetTypingDelay"
    /\ threw' = FALSE
    /\ UNCHANGED harness
    /\ UNCHANGED <<content, typingDelay, typingTimeout, openaiClient, timers,
                   modals, sinceChange, passes, burst>>

Init == InitController /\ fnArgs = NoCall /\ fnRet = NoRet

Next ==
    \/ \E d \in CtlDocs : UserEdit(d)
    \/ Tick
    \/ \E t \in timers : TimerFires(t)
    \/ \E k \in 1..MaxModals : ClickNo(k)
    \/ \E k \in 1..MaxModals : ClickYes(k)
    \/ \E k \in 1..MaxModals, response \in Responses : BackendResponds(k, response)
    \/ \E k \in 1..MaxModals : ClickCancel(k)
    \/ \E k \in 1..MaxModals : ClickConfirm(k)
    \/ \E value \in ApiKeys : SetApiKey(value)
    \/ \E value \in TypingDelays : SetTypingDelay(value)

Spec == Init /\ [][Next]_vars

\* The backend call of every dialog settles: the promise of
\* client.chat.completions.create resolves or rejects.
SpecLive ==
    /\ Spec
    /\ \A k \in 1..MaxModals :
          WF_vars(\E response \in Responses : BackendResponds(k, response))

(***************************************************************************)
(* Claims about the controller, checked under Spec.                        *)
(***************************************************************************)

\* C1: every editor-change event cancels the timer scheduled before it, so
\* at most one detection timer is pending and the pending one is the timer
\* the latest event scheduled: a superseded timer is never left to fire.
C1_SingleTimer ==
    /\ Cardinality(timers) <= 1
    /\ \A t \in timers : t.id = typingTimeout

\* A second event of a burst has arrived and one timer is pending.
C1_Witness ==
    /\ lastOp = "UserEdit"
    /\ burst = 2
    /\ Cardinality(timers) = 1

\* C2: a burst of change events, each arriving before the timer of the
\* previous one has run, gives exactly one detection pass, and the pass runs
\* one full typing delay after the last event of the burst.
C2_OnePassPerBurst ==
    /\ [](burst > 0 =>
            \/ passes = 0 /\ Cardinality(timers) = 1
            \/ passes = 1 /\ timers = {})
    /\ [][passes' = passes + 1 => sinceChange = TimeoutDelay(typingDelay)]_vars

\* Two events in a burst, then the one pass, 2000 ms after the second.
C2_Witness ==
    /\ lastOp = "TimerFires"
    /\ burst = 2
    /\ passes = 1
    /\ timers = {}
    /\ typingDelay = Num(DEFAULT_typingDelay)
    /\ sinceChange = DEFAULT_typingDelay

\* C3: while a cycle is Generating or awaits the user's decision, no second
\* dialog is open on the document.
C3_OneActiveCycle ==
    \A k \in DOMAIN modals :
        modals[k].stage \in {StageGenerating, StageAwaitingUserDecision}
            => Len(modals) = 1

\* C4: the document changes only by the user's own edit or as the effect of
\* "Confirm" on a stage-2 candidate, which writes replaceText's result.
C4_WriteOnlyOnConfirm ==
    [][content' # content =>
          \/ lastOp' = "UserEdit"
          \/ /\ lastOp' = "ClickConfirm"
             /\ \E k \in DOMAIN modals :
                   /\ modals[k].stage = StageAwaitingUserDecision
                   /\ modals' = RemoveAt(modals, k)
                   /\ content' = replaceText(content, modals[k].match.text,
                                             modals[k].replacement)]_vars

\* "Confirm" has written a candidate into the document.
C4_Witness ==
    /\ lastOp = "ClickConfirm"
    /\ content = <<"x", "X">>

\* C6: when the document at "Confirm" is the document of the detection pass,
\* the new document is that document with the detected span replaced by the
\* candidate text.
C6_SpanReplaced ==
    [][\A k \in DOMAIN modals :
          (/\ lastOp' = "ClickConfirm"
           /\ modals[k].stage = StageAwaitingUserDecision
           /\ modals' = RemoveAt(modals, k)
           /\ content = modals[k].input)
          => content' =
                Slice(content, 0, modals[k].match.index)
                  \o modals[k].replacement
                  \o Slice(content,
                           modals[k].match.index + Len(modals[k].match.text),
                           Len(content))]_vars

Texts(chars, n) == UNION {[1..k -> chars] : k \in 0..n}

DocChars == {"@", "[", "]", "x", "\n"}
ReplChars == {"X", "$", "&", "\n"}

ExampleDoc == <<"A", " ", "@", "[", "x", "]", " ", "B">>
SummaryDoc ==
    <<"S", "u", "m", "m", "a", "r", "y", ":", " ", "@", "[", "s", "u", "m",
      "m", "a", "r", "i", "z", "e", " ", "t", "h", "e", " ", "a", "b", "o",
      "v", "e", "]">>
SummaryReply ==
    <<"T", "h", "i", "s", " ", "i", "s", " ", "a", " ", "o", "n", "e", "-",
      "l", "i", "n", "e", " ", "s", "u", "m", "m", "a", "r", "y", ".">>

Docs == Texts(DocChars, MaxDocLen) \cup {ExampleDoc, SummaryDoc}
TriggerDocs == {d \in Docs : Exec(d).found}
MatchTexts == {Exec(d).text : d \in TriggerDocs}
Replacements == Texts(ReplChars, MaxReplLen) \cup {SummaryReply}

\* The values parseInt can store in the windowSize setting.
WindowSizes ==
    {NaN, Num(DEFAULT_windowSize), Num(100)}
        \cup {Num(w) : w \in (0 - MaxWindow)..MaxWindow}

\* The controller at rest, while a pure function is exercised.
IdleController ==
    /\ content = <<>>
    /\ settings = DEFAULT_SETTINGS
    /\ typingDelay = settings.typingDelay
    /\ typingTimeout = NoTimer
    /\ openaiClient = NullClient
    /\ timers = {}
    /\ modals = <<>>
    /\ sinceChange = 0
    /\ passes = 0
    /\ burst = 0
    /\ lastOp = "onload"
    /\ threw = FALSE

InitWindow ==
    /\ IdleController
    /\ fnArgs \in {[op |-> "buildWindow", content |-> d, windowSize |-> w]
                      : d \in TriggerDocs, w \in WindowSizes}
    /\ fnRet = NoRet

\* The window computation of showConfirmationModal and triggerGeneration.
BuildWindow ==
    /\ fnArgs.op = "buildWindow"
    /\ fnRet = NoRet
    /\ LET match == Exec(fnArgs.content)
       IN  fnRet' = [op |-> "buildWindow",
                     match |-> match,
                     start |-> WindowStart(match, fnArgs.windowSize),
                     end |-> WindowEnd(fnArgs.content, match, fnArgs.windowSize),
                     textWindow |-> TextWindow(fnArgs.content, match,
                                               fnArgs.windowSize)]
    /\ UNCHANGED <<fnArgs, ctlVars>>

NextWindow == BuildWindow
SpecWindow == InitWindow /\ [][NextWindow]_vars

InitReplace ==
    /\ IdleController
    /\ fnArgs \in {[op |-> "replaceText", content |-> d, match |-> m,
                    replacement |-> r]
                      : d \in Docs, m \in MatchTexts, r \in Replacements}
    /\ fnRet = NoRet

\* replaceText of the debounce variant: the cursor is not touched.
ReplaceTextDebounce ==
    /\ fnArgs.op = "replaceText"
    /\ fnRet = NoRet
    /\ fnRet' = [op |-> "replaceText",
                 variant |-> "debounce",
                 content |-> replaceText(fnArgs.content, fnArgs.match,
                                         fnArgs.replacement),
                 cursor |-> NoCursor]
    /\ UNCHANGED <<fnArgs, ctlVars>>

\* replaceText of the suggester variant.
ReplaceTextSuggester(lineThrows) ==
    /\ fnArgs.op = "replaceText"
    /\ fnRet = NoRet
    /\ LET r == replaceTextSuggester(fnArgs.content, fnArgs.match,
                                     fnArgs.replacement, lineThrows)
       IN  fnRet' = [op |-> "replaceText",
                     variant |-> "suggester",
                     content |-> r.content,
                     cursor |-> r.cursor]
    /\ UNCHANGED <<fnArgs, ctlVars>>

NextReplace ==
    \/ ReplaceTextDebounce
    \/ \E lineThrows \in BOOLEAN : ReplaceTextSuggester(lineThrows)
SpecReplace == InitReplace /\ [][NextReplace]_vars

(***************************************************************************)
(* Claims about replaceText, checked under SpecReplace.                    *)
(***************************************************************************)

\* C5: when the match text occurs in the document, the new document is the
\* old one with the first occurrence of the match replaced by the
\* replacement, character for character.
C5_ReplacementVerbatim ==
    (fnRet.op = "replaceText" /\ IndexOf(fnArgs.content, fnArgs.match) # -1) =>
        LET j == IndexOf(fnArgs.content, fnArgs.match)
        IN  fnRet.content =
                Slice(fnArgs.content, 0, j)
                  \o fnArgs.replacement
                  \o Slice(fnArgs.content, j + Len(fnArgs.match),
                           Len(fnArgs.content))

\* C7: after the substitution the cursor is on the line (counted from 0)
\* that holds the first occurrence of the replacement, right after it.
\* Stated for the variant that sets a cursor and for a replacement of
\* ordinary characters on one line.
C7_CursorAfterReplacement ==
    (/\ fnRet.op = "replaceText"
     /\ fnRet.variant = "suggester"
     /\ IndexOf(fnArgs.content, fnArgs.match) # -1
     /\ fnArgs.replacement # <<>>
     /\ \A i \in DOMAIN fnArgs.replacement :
            fnArgs.replacement[i] \notin {"$", "\n"}) =>
        LET at == IndexOf(fnRet.content, fnArgs.replacement)
            line == SplitLength(Slice(fnRet.content, 0, at)) - 1
        IN  /\ fnRet.cursor.set
            /\ fnRet.cursor.line = line
            /\ fnRet.cursor.ch =
                   at - LineStart(fnRet.content, line) + Len(fnArgs.replacement)

(***************************************************************************)
(* Claims about the context window, checked under SpecWindow.              *)
(***************************************************************************)

\* C8: for every window size the setting can hold,
\* 0 <= start <= end <= len(document).
C8_WindowBounds ==
    fnRet.op = "buildWindow" =>
        /\ Leq(Num(0), fnRet.start)
        /\ Leq(fnRet.start, fnRet.end)
        /\ Leq(fnRet.end, Num(Len(fnArgs.content)))

\* The claim's two offsets, in halves: 2 * max(i - W/2, 0) and
\* 2 * min(i + L + W/2, len(D)), for a window size of W.h / 2.
ClaimStartH == Max(2 * fnRet.match.index - (fnArgs.windowSize.h \div 2), 0)
ClaimEndH ==
    Min(2 * (fnRet.match.index + Len(fnRet.match.text))
            + (fnArgs.windowSize.h \div 2),
        2 * Len(fnArgs.content))

\* C9 as stated, for the window sizes 0, 1, 2, ...: the length of the window
\* text is min(i + L + W/2, len(D)) - max(i - W/2, 0), and at most W + L.
C9_WindowLength ==
    (/\ fnRet.op = "buildWindow"
     /\ ~fnArgs.windowSize.nan
     /\ fnArgs.windowSize.h >= 0) =>
        /\ 2 * Len(fnRet.textWindow) = ClaimEndH - ClaimStartH
        /\ Len(fnRet.textWindow)
              <= (fnArgs.windowSize.h \div 2) + Len(fnRet.match.text)

\* C9 as amended: for the window sizes 0, 1, 2, ... the length of the window
\* text is floor(min(i + L + W/2, len(D))) - floor(max(i - W/2, 0)), which
\* is the claim's difference when W is even, and it is at most W + L.
C9_WindowLengthFloored ==
    (/\ fnRet.op = "buildWindow"
     /\ ~fnArgs.windowSize.nan
     /\ fnArgs.windowSize.h >= 0) =>
        /\ Len(fnRet.textWindow) = (ClaimEndH \div 2) - (ClaimStartH \div 2)
        /\ (fnArgs.windowSize.h \div 2) % 2 = 0
              => 2 * Len(fnRet.textWindow) = ClaimEndH - ClaimStartH
        /\ Len(fnRet.textWindow)
              <= (fnArgs.windowSize.h \div 2) + Len(fnRet.match.text)

\* An odd window size whose window is clamped at one end only: the claim's
\* difference is no whole number.
C9_Witness ==
    /\ fnRet.op = "buildWindow"
    /\ ~fnArgs.windowSize.nan
    /\ fnArgs.windowSize.h >= 0
    /\ (fnArgs.windowSize.h \div 2) % 2 = 1
    /\ (ClaimEndH - ClaimStartH) % 2 = 1


(***************************************************************************)
(* Claims about failures, checked under Spec.                              *)
(***************************************************************************)
MalformedKinds == {"noToolCalls", "emptyToolCalls", "badJson", "noField"}
Rejected == [kind |-> "reject", text |-> <<>>]

\* C11: a first choice without tool_calls, an empty tool_calls list,
\* arguments that are no JSON and arguments without selectionReplacement
\* all end in one candidate, the "Invalid response" message, which is not
\* the candidate a rejected request ends in.
C11_MalformedOneOutcome ==
    \A k \in DOMAIN modals :
        (/\ modals[k].stage = StageAwaitingUserDecision
         /\ modals[k].response.kind \in MalformedKinds)
        => /\ modals[k].replacement = MsgInvalidResponse
           /\ modals[k].replacement
                 # generateReplacementText(getReplacement(Rejected))

\* C12: whatever the backend does, the generation ends without an exception
\* and hands the dialog a text that is not empty: the reply's replacement,
\* or one of the failure messages.
C12_BoundaryNeverRaises ==
    /\ lastOp = "BackendResponds" => ~threw
    /\ \A k \in DOMAIN modals :
          /\ modals[k].stage # StageRaised
          /\ modals[k].stage = StageAwaitingUserDecision =>
                /\ modals[k].replacement # <<>>
                /\ \/ /\ modals[k].response.kind = "ok"
                      /\ modals[k].replacement = modals[k].response.text
                   \/ modals[k].replacement \in FailureMessages

\* Every backend behaviour has been answered with a candidate: a rejected
\* request is the last of them here.
C12_Witness ==
    /\ lastOp = "BackendResponds"
    /\ \E k \in DOMAIN modals :
          /\ modals[k].stage = StageAwaitingUserDecision
          /\ modals[k].response = Rejected
          /\ modals[k].replacement = MsgErrorGenerating

\* C13: a detection pass under a trigger pattern that does not compile ends
\* without an exception, opens no dialog and leaves the document as it is.
C13_MalformedPatternNoMatch ==
    [][(lastOp' = "TimerFires" /\ passes' = passes + 1
          /\ RegExpThrows(settings.triggerRegex))
       => (~threw' /\ modals' = modals /\ content' = content)]_vars


\* C14: a stage-1 "Yes" while the API key setting is empty sends no request
\* and shows the "client not initialized" message; a "Yes" without a client
\* but with a key creates the client and sends the request.
C14_NoBackendConfigured ==
    [][\A k \in DOMAIN modals :
          (/\ lastOp' = "ClickYes"
           /\ Len(modals') = Len(modals)
           /\ modals[k].stage = StageAwaitingConfirmation
           /\ modals'[k].stage # StageAwaitingConfirmation)
          => /\ settings.openaiApiKey = ""
                  => /\ modals'[k].stage = StageAwaitingUserDecision
                     /\ modals'[k].replacement = MsgNotInitialized
             /\ (openaiClient = NullClient /\ settings.openaiApiKey # "")
                  => /\ openaiClient' # NullClient
                     /\ modals'[k].stage = StageGenerating]_vars


(***************************************************************************)
(* Claims about the course of a cycle.  C15 is checked under SpecLive, the *)
(* others under Spec.                                                      *)
(***************************************************************************)
\* C15: a dialog that is Generating stays so, whatever else happens (it
\* moves one place down when a dialog opened before it closes), until its
\* backend call settles, and then it awaits the user's decision with a
\* candidate text; and when every backend call settles, no dialog is
\* Generating for ever.
C15_GeneratingCompletes ==
    /\ [][\A k \in DOMAIN modals :
            modals[k].stage = StageGenerating =>
               \/ /\ k \in DOMAIN modals'
                  /\ modals'[k] = modals[k]
               \/ /\ k > 1
                  /\ Len(modals') = Len(modals) - 1
                  /\ modals'[k - 1] = modals[k]
               \/ /\ lastOp' = "BackendResponds"
                  /\ Len(modals') = Len(modals)
                  /\ modals'[k].stage = StageAwaitingUserDecision
                  /\ modals'[k].input = modals[k].input
                  /\ modals'[k].replacement # <<>>]_vars
    /\ \A k \in 1..MaxModals :
          (k \in DOMAIN modals /\ modals[k].stage = StageGenerating)
             ~> (k \notin DOMAIN modals \/ modals[k].stage # StageGenerating)

\* A backend call has settled and its dialog shows a candidate, after the
\* document was edited away from the text of the detection pass and while
\* the timer that edit restarted is pending.
C15_Witness ==
    /\ lastOp = "BackendResponds"
    /\ timers # {}
    /\ passes = 0
    /\ \E k \in DOMAIN modals :
          /\ modals[k].stage = StageAwaitingUserDecision
          /\ modals[k].response.kind # "none"
          /\ modals[k].input # content


\* C16: the dialog a detection pass opens holds the document as it is when
\* the timer fires, and its match is a trigger of that document at the
\* offsets recorded: "@[", no line break, "]", with no "@[" before it.
C16_MatchOnCurrentContent ==
    [][(/\ lastOp' = "TimerFires"
        /\ passes' = passes + 1
        /\ Len(modals') = Len(modals) + 1)
       => LET m == modals'[Len(modals')]
              i == m.match.index
              n == Len(m.match.text)
          IN  /\ content' = content
              /\ m.input = content
              /\ m.match.found
              /\ n >= 3
              /\ i + n <= Len(content)
              /\ Slice(content, i, i + n) = m.match.text
              /\ content[i + 1] = "@" /\ content[i + 2] = "["
              /\ content[i + n] = "]"
              /\ \A j \in 0..(i - 1) :
                    ~(content[j + 1] = "@" /\ content[j + 2] = "[")]_vars

\* The timer of the second event of a burst has fired and its pass opened a
\* dialog on the document of that moment.
C16_Witness ==
    /\ lastOp = "TimerFires"
    /\ burst = 2
    /\ modals # <<>>
    /\ modals[Len(modals)].stage = StageAwaitingConfirmation
    /\ modals[Len(modals)].input = content
    /\ modals[Len(modals)].match.index = 1


\* The dialogs whose backend request is in flight.
Generating(ms) == {k \in DOMAIN ms : ms[k].stage = StageGenerating}
\* No dialog open and no timer pending.
ControllerIdle == modals = <<>> /\ timers = {}

\* C17: a request goes out only in the step in which the user accepts the
\* stage-1 dialog of a match.  A pass that finds no match, and a stage-1
\* "No", send no request, open no dialog and leave nothing of the cycle:
\* the controller is idle unless another dialog or a timer is there.
C17_RequestOnlyAfterAccept ==
    [][/\ Cardinality(Generating(modals')) > Cardinality(Generating(modals))
          => /\ lastOp' = "ClickYes"
             /\ Len(modals') = Len(modals)
             /\ \E k \in DOMAIN modals :
                   /\ modals[k].stage = StageAwaitingConfirmation
                   /\ modals[k].match.found
                   /\ modals' = [modals EXCEPT ![k].stage = StageGenerating]
       /\ (/\ lastOp' = "TimerFires"
           /\ passes' = passes + 1
           /\ ~RegExpThrows(settings.triggerRegex)
           /\ ~Exec(content).found)
          => /\ modals' = modals
             /\ content' = content
             /\ \E t \in timers : timers' = timers \ {t}
             /\ (modals = <<>> /\ Cardinality(timers) = 1) => ControllerIdle'
       /\ lastOp' = "ClickNo"
          => /\ \E k \in DOMAIN modals :
                   /\ modals[k].stage = StageAwaitingConfirmation
                   /\ modals' = RemoveAt(modals, k)
             /\ content' = content
             /\ timers' = timers
             /\ openaiClient' = openaiClient
             /\ Cardinality(Generating(modals')) = Cardinality(Generating(modals))
             /\ (Len(modals) = 1 /\ timers = {}) => ControllerIdle']_vars

\* The user has declined the only dialog and the controller is idle.
C17_Witness ==
    /\ lastOp = "ClickNo"
    /\ ControllerIdle
    /\ Exec(content).found


\* C18: the context window of the request is the window of the document as
\* it is when the user accepts the stage-1 dialog.
C18_WindowAtAcceptance ==
    [][\A k \in DOMAIN modals :
          (/\ lastOp' = "ClickYes"
           /\ Len(modals') = Len(modals)
           /\ modals[k].stage = StageAwaitingConfirmation
           /\ modals'[k].stage = StageGenerating)
          => modals'[k].textWindow
                = TextWindow(content, modals[k].match, settings.windowSize)]_vars

\* d holds exactly one trigger
OneTrigger(d) ==
    LET m == Exec(d)
    IN  /\ m.found
        /\ ~Exec(Slice(d, m.index + Len(m.text), Len(d))).found

\* C19: when "Confirm" substitutes a candidate that holds no trigger for
\* the one trigger of the document, the new document holds no trigger: a
\* later pass on it finds no match.
C19_QuiescentAfterSubstitution ==
    [][\A k \in DOMAIN modals :
          (/\ lastOp' = "ClickConfirm"
           /\ modals[k].stage = StageAwaitingUserDecision
           /\ modals' = RemoveAt(modals, k)
           /\ ~RegExpThrows(settings.triggerRegex)
           /\ OneTrigger(content)
           /\ Exec(content).text = modals[k].match.text
           /\ ~Exec(modals[k].replacement).found)
          => ~Exec(content').found]_vars

\* C20: a generation that failed, whatever the failure, leaves its dialog
\* awaiting the decision with the failure message as the candidate;
\* "Confirm" puts that message in the place of the first occurrence of the
\* trigger text, "Cancel" leaves the document as it is.
C20_FailureOfferedAsCandidate ==
    /\ [](\A k \in DOMAIN modals :
            /\ modals[k].response.kind \in ResponseKinds
                  => /\ modals[k].stage = StageAwaitingUserDecision
                     /\ modals[k].replacement \in FailureMessages
            /\ (/\ modals[k].response.kind = "none"
                /\ modals[k].stage = StageAwaitingUserDecision)
                  => modals[k].replacement = MsgNotInitialized)
    /\ [][\A k \in DOMAIN modals :
            (/\ modals[k].stage = StageAwaitingUserDecision
             /\ modals[k].replacement \in FailureMessages
             /\ modals' = RemoveAt(modals, k))
            => LET t == modals[k].match.text
                   i == IndexOf(content, t)
               IN  /\ lastOp' = "ClickConfirm" =>
                        content' = IF i = -1 THEN content
                                   ELSE Slice(content, 0, i)
                                          \o modals[k].replacement
                                          \o Slice(content, i + Len(t),
                                                   Len(content))
                   /\ lastOp' = "ClickCancel" => content' = content]_vars

\* "Confirm" has put a failure message in the place of the trigger.
C20_Witness ==
    /\ lastOp = "ClickConfirm"
    /\ \E msg \in FailureMessages : content = <<"x">> \o msg


(***************************************************************************)
(* Claims about requests, candidates and settings, checked under Spec.     *)
(***************************************************************************)
\* C21: a dialog sends one request at most.  A dialog that has not been
\* answered by the backend is the only kind that can send one, it sends it
\* in the step of the user's "Yes", and the step in which the backend call
\* settles, with a replacement or with a failure, ends that request and
\* starts no other.
C21_NoAutomaticRetry ==
    /\ [](\A k \in DOMAIN modals :
            modals[k].stage \in {StageAwaitingConfirmation, StageGenerating}
               => modals[k].response = NoResponse)
    /\ [][/\ Cardinality(Generating(modals')) > Cardinality(Generating(modals))
             => /\ lastOp' = "ClickYes"
                /\ Cardinality(Generating(modals'))
                      = Cardinality(Generating(modals)) + 1
          /\ lastOp' = "BackendResponds"
             => /\ Cardinality(Generating(modals'))
                      = Cardinality(Generating(modals)) - 1
                /\ \A k \in DOMAIN modals :
                      modals[k].stage # StageGenerating
                         => modals'[k] = modals[k]]_vars

\* A request has failed and no request is in flight after it.
C21_Witness ==
    /\ lastOp = "BackendResponds"
    /\ Generating(modals) = {}
    /\ \E k \in DOMAIN modals :
          /\ modals[k].response.kind \in {"reject", "zeroChoices"}
          /\ modals[k].replacement \in FailureMessages


\* C22: when the reply carries a string in selectionReplacement, the
\* candidate the dialog shows is that string, the empty string included.
C22_ReplacementReturnedExactly ==
    \A k \in DOMAIN modals :
        (/\ modals[k].stage = StageAwaitingUserDecision
         /\ modals[k].response.kind = "ok")
        => modals[k].replacement = modals[k].response.text


\* C23: the timer a change event schedules runs for the Typing Delay of the
\* settings as they are at that event.
C23_DelayIsCurrentSetting ==
    [][lastOp' \in {"UserEdit", "ClickConfirm"}
       => \A t \in timers' :
             t.id = typingTimeout'
                => t.remaining = TimeoutDelay(settings.typingDelay)]_vars


\* C25: "Confirm" on a document in which the captured match text occurs
\* nowhere leaves the text of the document as it was.
C25_StaleMatchNoChange ==
    [][\A k \in DOMAIN modals :
          (/\ lastOp' = "ClickConfirm"
           /\ modals[k].stage = StageAwaitingUserDecision
           /\ modals' = RemoveAt(modals, k)
           /\ IndexOf(content, modals[k].match.text) = -1)
          => content' = content]_vars

\* "Confirm" has run on a document the trigger was edited out of.
C25_Witness ==
    /\ lastOp = "ClickConfirm"
    /\ content = <<"x">>

\* C26: the client, once there, stays the same whatever happens; it comes
\* to be there only in a generation that finds no client and a key that is
\* not empty, and is then built from that key.
C26_ClientWriteOnce ==
    [][/\ openaiClient # NullClient => openaiClient' = openaiClient
       /\ (openaiClient = NullClient /\ openaiClient' # NullClient)
          => /\ lastOp' = "ClickYes"
             /\ settings.openaiApiKey # ""
             /\ openaiClient' = settings.openaiApiKey]_vars

\* A request goes out through the client built from a key that the settings
\* no longer hold.
C26_Witness ==
    /\ lastOp = "ClickYes"
    /\ openaiClient = "sk-1"
    /\ settings.openaiApiKey = ""
    /\ Generating(modals) # {}

(***************************************************************************)
(* C27, checked under SpecWindow.                                          *)
(***************************************************************************)
\* C27: for the window sizes 0, 1, 2, ... the window holds the whole match:
\* start <= match.index, match.index + len(match) <= end, and the match text
\* stands in the window text at the place the offsets give.
C27_WindowHoldsMatch ==
    (/\ fnRet.op = "buildWindow"
     /\ ~fnArgs.windowSize.nan
     /\ fnArgs.windowSize.h >= 0) =>
        LET i == fnRet.match.index
            n == Len(fnRet.match.text)
            a == ToInteger(fnRet.start)
        IN  /\ Leq(fnRet.start, Num(i))
            /\ Leq(Num(i + n), fnRet.end)
            /\ 0 <= a /\ a <= i
            /\ i - a + n <= Len(fnRet.textWindow)
            /\ Slice(fnRet.textWindow, i - a, i - a + n) = fnRet.match.text

\* A window of size 0 or 1 around a match that is not at the start of the
\* document: the window is the match text and nothing else.
C27_Witness ==
    /\ fnRet.op = "buildWindow"
    /\ fnArgs.windowSize \in {Num(0), Num(1)}
    /\ fnRet.match.index > 0
    /\ fnRet.textWindow = fnRet.match.text


(***************************************************************************)
(* The suggester variant (src/main.ts, lines 395-642): the suggestion at   *)
(* the cursor, triggerGeneration, the dialog and replaceText.  fnArgs      *)
(* holds the editor (document and cursor line), fnRet how far the cycle    *)
(* has come.                                                               *)
(***************************************************************************)
MaxLines == 2       \* lines of the suggester's documents

\* Autogen.matchRegex: the pattern on the line of the cursor
matchRegex(doc, line) == Exec(LineText(doc, line))

\* AutogenSuggest.onTrigger: is there a suggestion to show
onTrigger(doc, line) == matchRegex(doc, line).found

\* Autogen.triggerGeneration: the dialog it opens, if any
triggerGeneration(doc, windowSize) ==
    LET match == Exec(doc)
    IN  IF match.found
        THEN [opened |-> TRUE, match |-> match,
              textWindow |-> TextWindow(doc, match, windowSize)]
        ELSE [opened |-> FALSE, match |-> NoMatch, textWindow |-> <<>>]

SuggestLines == {<<"x">>, <<"@", "[", "]">>, <<"@", "[", "x", "]">>}
RECURSIVE JoinLines(_)
JoinLines(ls) ==
    IF Len(ls) = 1 THEN ls[1] ELSE ls[1] \o <<"\n">> \o JoinLines(Tail(ls))
SuggestDocs ==
    {JoinLines(ls) : ls \in UNION {[1..k -> SuggestLines] : k \in 1..MaxLines}}
\* The candidates generateReplacementText hands to the dialog.
SuggestCandidates == {<<"X">>, MsgErrorGenerating}

InitSuggest ==
    /\ IdleController
    /\ fnArgs \in {a \in [op : {"suggest"}, content : SuggestDocs,
                         line : 0..(MaxLines - 1)]
                      : a.line < LineCount(a.content)}
    /\ fnRet = NoRet

\* The host asks the suggester whether to show its suggestion.
OnTrigger ==
    /\ fnArgs.op = "suggest"
    /\ fnRet = NoRet
    /\ fnRet' = [op |-> "onTrigger",
                 shown |-> onTrigger(fnArgs.content, fnArgs.line)]
    /\ UNCHANGED <<fnArgs, ctlVars>>

\* The user picks the suggestion: selectSuggestion calls triggerGeneration,
\* and the dialog it opens sends the request at once (AutogenModal.onOpen).
SelectSuggestion ==
    /\ fnRet.op = "onTrigger"
    /\ fnRet.shown
    /\ LET modal == triggerGeneration(fnArgs.content, settings.windowSize)
       IN  fnRet' = [op |-> "generating", opened |-> modal.opened,
                     match |-> modal.match, textWindow |-> modal.textWindow]
    /\ UNCHANGED <<fnArgs, ctlVars>>

\* generateReplacementText settles and the dialog shows the candidate.
GenerationSettles(candidate) ==
    /\ fnRet.op = "generating"
    /\ fnRet.opened
    /\ fnRet' = [op |-> "candidate", match |-> fnRet.match,
                 textWindow |-> fnRet.textWindow, replacement |-> candidate]
    /\ UNCHANGED <<fnArgs, ctlVars>>

\* "Confirm": replaceText with the match and the candidate of the dialog.
SuggestConfirm(lineThrows) ==
    /\ fnRet.op = "candidate"
    /\ LET r == replaceTextSuggester(fnArgs.content, fnRet.match.text,
                                     fnRet.replacement, lineThrows)
       IN  fnRet' = [op |-> "replaced", match |-> fnRet.match,
                     replacement |-> fnRet.replacement,
                     content |-> r.content, cursor |-> r.cursor]
    /\ UNCHANGED <<fnArgs, ctlVars>>

\* "Cancel": the dialog closes.
SuggestCancel ==
    /\ fnRet.op = "candidate"
    /\ fnRet' = [op |-> "closed", match |-> fnRet.match]
    /\ UNCHANGED <<fnArgs, ctlVars>>

NextSuggest ==
    \/ OnTrigger
    \/ SelectSuggestion
    \/ \E candidate \in SuggestCandidates : GenerationSettles(candidate)
    \/ \E lineThrows \in BOOLEAN : SuggestConfirm(lineThrows)
    \/ SuggestCancel
SpecSuggest == InitSuggest /\ [][NextSuggest]_vars

\* C24: the suggestion shows only on a line that matches the pattern, and
\* the match sent for generation, the one "Confirm" then replaces, lies on
\* the line of the cursor.
C24_MatchOnCursorLine ==
    /\ (fnRet.op = "onTrigger" /\ fnRet.shown)
          => Exec(LineText(fnArgs.content, fnArgs.line)).found
    /\ fnRet.op \in {"generating", "candidate", "replaced"}
          => /\ fnRet.match.found
             /\ LineStart(fnArgs.content, fnArgs.line) <= fnRet.match.index
             /\ fnRet.match.index + Len(fnRet.match.text)
                   <= LineEnd(fnArgs.content, fnArgs.line)
    /\ fnRet.op = "replaced"
          => LET i == IndexOf(fnArgs.content, fnRet.match.text)
             IN  /\ LineStart(fnArgs.content, fnArgs.line) <= i
                 /\ fnRet.content
                       = Slice(fnArgs.content, 0, i)
                           \o fnRet.replacement
                           \o Slice(fnArgs.content, i + Len(fnRet.match.text),
                                    Len(fnArgs.content))

=============================================================================
